---- MODULE Spec2Model ----
(***************************************************************************)
(* Model of src/app.py, the Streamlit laboratory for simple harmonic       *)
(* motion.  Streamlit reruns the whole script on every interaction, so     *)
(* every action below is one interaction followed by one complete run of   *)
(* the script: the widgets are read, the branch selected by `opcion` is    *)
(* executed, and the metrics and figures it emits become `out`.            *)
(*                                                                         *)
(* Numbers.  Widget values are decimals, kept here as integers in the      *)
(* widget's step: tenths for the 0.1-step sliders (m10, A10, L10, b10),    *)
(* hundredths for number_input and for the float sliders without a step    *)
(* (mH, kH, gH, k_fixedH, m_fixedH).  Derived quantities are exact         *)
(* rationals <<numerator, denominator>>; binary floating-point rounding    *)
(* is not modelled.  Quantities that are irrational in the code are        *)
(* carried by an exact rational representative, stated where it is used.   *)
(***************************************************************************)
EXTENDS Integers, Sequences, FiniteSets, TLC

VARIABLES opcion, widgets, out, ref, track

vars == <<opcion, widgets, out, ref, track>>

(***************************************************************************)
(* Bounds of the model                                                     *)
(***************************************************************************)
\* How many further slider positions above the minimum are explored, besides
\* the minimum, the default and the maximum of every slider.
SliderReach == 0

(***************************************************************************)
(* Exact rational arithmetic                                               *)
(***************************************************************************)
Abs(a) == IF a < 0 THEN -a ELSE a

RECURSIVE GCD(_, _)
GCD(a, b) == IF b = 0 THEN a ELSE GCD(b, a % b)

\* The rational n/d in lowest terms with a positive denominator.
Rat(n, d) ==
    LET g == GCD(Abs(n), Abs(d))
        s == IF d < 0 THEN -1 ELSE 1
    IN  <<(s * n) \div g, (s * d) \div g>>

RInt(n) == <<n, 1>>
RAdd(p, q) == Rat(p[1] * q[2] + q[1] * p[2], p[2] * q[2])
RSub(p, q) == Rat(p[1] * q[2] - q[1] * p[2], p[2] * q[2])
RMul(p, q) == Rat(p[1] * q[1], p[2] * q[2])
RDiv(p, q) == Rat(p[1] * q[2], p[2] * q[1])
RNeg(p) == <<-p[1], p[2]>>
RSq(p) == RMul(p, p)
RLess(p, q) == p[1] * q[2] < q[1] * p[2]
RHalf == Rat(1, 2)

\* floor(sqrt(n)) for n >= 0, by bisection.
RECURSIVE ISqrtIn(_, _, _)
ISqrtIn(n, lo, hi) ==
    IF lo >= hi THEN lo
    ELSE LET mid == (lo + hi + 1) \div 2
         IN  IF mid * mid <= n THEN ISqrtIn(n, mid, hi)
                               ELSE ISqrtIn(n, lo, mid - 1)

ISqrt(n) == ISqrtIn(n, 0, 46340)

\* c < a * b for c >= 0, evaluated without forming the product a * b.
LessThanProduct(c, a, b) ==
    IF a = 0 \/ b = 0 THEN FALSE
    ELSE IF (a < 0) # (b < 0) THEN FALSE
    ELSE (c \div Abs(a)) < Abs(b)

\* f"{q:.<digits>f}" for q >= 0: q rounded to `digits` decimals, as the integer
\* number of units of 10^-digits.  Exact decimal ties round up here; in the
\* code the binary value next to a tie decides the last digit.
Pow10(d) == IF d = 0 THEN 1 ELSE IF d = 1 THEN 10 ELSE IF d = 2 THEN 100 ELSE 1000
Fmt(q, digits) == (2 * q[1] * Pow10(digits) + q[2]) \div (2 * q[2])

(***************************************************************************)
(* Input controls (lines 19-22, 45-60, 111-113, 146, 157, 173-175)         *)
(***************************************************************************)
Opciones ==
    {"Inicio", "Masa-Resorte", "Péndulo Simple", "Análisis T vs (m, k)", "MAS Amortiguado"}

\* Positions of a slider explored, in steps: its minimum, default and
\* maximum, and the SliderReach positions next above the minimum (none when
\* `track` is set).
SliderChoices(lo, def, hi) ==
    {lo, def, hi} \cup
    {v \in lo..hi : v - lo <= (IF track THEN 0 ELSE SliderReach)}

\* st.slider("Masa (m) [kg]", 0.1, 10.0, 1.0, 0.1), in tenths
MasaSlider == SliderChoices(1, 10, 100)
\* st.slider("Constante elástica (k) [N/m]", 1.0, 100.0, 10.0, 1.0)
KSlider == SliderChoices(1, 10, 100)
\* st.slider("Amplitud (A) [m]", 0.1, 5.0, 1.0, 0.1), in tenths
AmplitudSlider == SliderChoices(1, 10, 50)
\* st.slider("Tiempo simulación [s]", 5, 30, 10)
DurationSlider == SliderChoices(5, 10, 30)
\* st.radio(..., ("Horizontal", "Vertical"))
TipoSistema == {"Horizontal", "Vertical"}
\* st.slider("Longitud (L) [m]", 0.1, 5.0, 1.0, 0.1), in tenths
LSlider == SliderChoices(1, 10, 50)
\* st.slider("Ángulo inicial (grados)", 1, 179, 10)
ThetaSlider == SliderChoices(1, 10, 179)
\* st.slider("Fijar Constante k [N/m]", 1.0, 50.0, 10.0), step 0.01, in hundredths
KFixedSlider == SliderChoices(100, 1000, 5000)
\* st.slider("Fijar Masa m [kg]", 0.1, 10.0, 1.0), step 0.01, in hundredths
MFixedSlider == SliderChoices(10, 100, 1000)
\* st.slider("Coeficiente amortiguamiento (b)", 0.0, 5.0, 0.5, 0.1), in tenths
BSlider == SliderChoices(0, 5, 50)

\* st.number_input(label, value=...) has no min_value and no max_value: the
\* user may type any number.  Typed values explored, in hundredths.
\* g: -9.81, 0, 1.62, the default 9.81
GTyped == {-981, 0, 162, 981}
\* m: -1, 0, 0.01, the default 1
MTyped == {-100, 0, 1, 100}
\* k: -1, 0, 6.25, the default 10, 7000000
KTyped == {-100, 0, 625, 1000, 700000000}

\* The widget values of a module when it is first rendered.
Defaults(o) ==
    CASE o = "Masa-Resorte" ->
           [tipo_sistema |-> "Horizontal", m |-> 10, k |-> 10, A |-> 10, duration |-> 10]
      [] o = "Péndulo Simple" -> [L |-> 10, g |-> 981, theta0_deg |-> 10]
      [] o = "Análisis T vs (m, k)" -> [k_fixed |-> 1000, m_fixed |-> 100]
      [] o = "MAS Amortiguado" -> [m |-> 100, k |-> 1000, b |-> 5]
      [] OTHER -> [none |-> 0]

(***************************************************************************)
(* numpy arrays                                                            *)
(***************************************************************************)
\* np.linspace(lo, hi, num): num samples from lo to hi, both included.
Linspace(lo, hi, num) == [lo |-> lo, hi |-> hi, num |-> num]

\* Sample i (from 0) of a grid: lo + i * (hi - lo) / (num - 1).
GridAt(g, i) == RAdd(g.lo, RMul(Rat(i, g.num - 1), RSub(g.hi, g.lo)))

\* Mutant: the result loses the last sample of t.
ElementwiseShort(kind, t, nan) == [kind |-> kind, n |-> t.num - 1, nan |-> nan]

\* The result of an elementwise expression over the array t: one value per
\* sample of t.  nan marks a series computed from a NaN scalar.
Elementwise(kind, t, nan) == [kind |-> kind, n |-> t.num, nan |-> nan]

\* plot_time_series / go.Figure with one go.Scatter(x=t, y=y, name=name) per series.
Figure(title, t, ys, names) ==
    [title |-> title, x |-> t,
     lines |-> [j \in 1..Len(ys) |-> [name |-> names[j], y |-> ys[j]]]]

\* np.cos and np.sin of a phase given in thousandths of a radian.  The unit
\* circle is represented by twelve of its exact rational points, one per
\* twelfth of a turn, in fifths.
CosTable == <<5, 4, 3, 0, -3, -4, -5, -4, -3, 0, 3, 4>>
SinTable == <<0, 3, 4, 5, 4, 3, 0, -3, -4, -5, -4, -3>>
Bucket(phaseMilli) == (((phaseMilli % 6283) * 12) \div 6283) + 1
Cos(phaseMilli) == Rat(CosTable[Bucket(phaseMilli)], 5)
Sin(phaseMilli) == Rat(SinTable[Bucket(phaseMilli)], 5)

(***************************************************************************)
(* Masa-Resorte (lines 42-103)                                             *)
(* p is the record of widget values of the module.                         *)
(***************************************************************************)
Masa(p) == Rat(p.m, 10)
Stiffness(p) == RInt(p.k)
Amplitud(p) == Rat(p.A, 10)

\* w = np.sqrt(k / m) is irrational in general: it is carried by its square.
w_sq(p) == RDiv(Stiffness(p), Masa(p))
\* w in thousandths of rad/s, rounded down; used for the phase w * t only.
w_milli(p) == ISqrt((p.k * 10000000) \div p.m)
\* f"{w:.2f}"
w_fmt(p) == (ISqrt((400000 * p.k) \div p.m) + 1) \div 2
\* T = 2 * np.pi / w = 2 pi sqrt(m / k), as f"{T:.2f}"  (pi^2 taken as 9.8696)
T_fmt(p) == (ISqrt((1579136 * p.m) \div (10 * p.k)) + 1) \div 2

\* t = np.linspace(0, duration, 500)
t_masa(p) == Linspace(RInt(0), RInt(p.duration), 500)

PhaseAt(p, i) ==
    LET ti == GridAt(t_masa(p), i) IN (w_milli(p) * ti[1]) \div ti[2]

\* Mutant: g taken as 10.
delta_eq_g10(p) == RDiv(RMul(Masa(p), RInt(10)), Stiffness(p))

\* delta_eq = (m * g) / k with g = 9.81
delta_eq(p) == RDiv(RMul(Masa(p), Rat(981, 100)), Stiffness(p))

\* Mutant: in Vertical mode the position is shifted by the equilibrium offset.
x_at_shifted(p, i) ==
    IF p.tipo_sistema = "Vertical"
    THEN RAdd(RMul(Amplitud(p), Cos(PhaseAt(p, i))), delta_eq(p))
    ELSE RMul(Amplitud(p), Cos(PhaseAt(p, i)))

\* x = A * np.cos(w * t)
x_at(p, i) == RMul(Amplitud(p), Cos(PhaseAt(p, i)))
\* v = -A * w * np.sin(w * t): the coefficient of w, so that v = w * v_over_w
v_over_w_at(p, i) == RNeg(RMul(Amplitud(p), Sin(PhaseAt(p, i))))
\* v**2
v_sq_at(p, i) == RMul(RSq(v_over_w_at(p, i)), w_sq(p))
\* a = -A * (w**2) * np.cos(w * t)
a_at(p, i) == RNeg(RMul(RMul(Amplitud(p), w_sq(p)), Cos(PhaseAt(p, i))))
\* E_p = 0.5 * k * x**2
E_p_at(p, i) == RMul(RMul(RHalf, Stiffness(p)), RSq(x_at(p, i)))
\* Mutant: the velocity lacks its factor w (v = -A * np.sin(w * t)).
E_k_at_without_w(p, i) == RMul(RMul(RHalf, Masa(p)), RSq(v_over_w_at(p, i)))

\* E_k = 0.5 * m * v**2
E_k_at(p, i) == RMul(RMul(RHalf, Masa(p)), v_sq_at(p, i))
\* E_m = E_p + E_k
E_m_at(p, i) == RAdd(E_p_at(p, i), E_k_at(p, i))

\* st.metric("Desplazamiento de equilibrio ...", ...): the value shown, in mm
DeltaMetric(p) ==
    IF p.tipo_sistema = "Vertical"
    THEN [label |-> "Desplazamiento de equilibrio (mg/k)", value |-> Fmt(delta_eq(p), 3)]
    ELSE [label |-> "Desplazamiento de equilibrio", value |-> 0]

desc_extra(p) ==
    IF p.tipo_sistema = "Vertical"
    THEN " (Vertical - Afectado por gravedad)" ELSE " (Horizontal)"

\* f"{0.5 * k * A**2:.2f} J"
EnergiaMetric(p) == Fmt(RMul(RMul(RHalf, Stiffness(p)), RSq(Amplitud(p))), 2)

MasaResorte(p) ==
    LET t == t_masa(p)
        S(kind) == Elementwise(kind, t, FALSE)
    IN  [module |-> "Masa-Resorte", status |-> "ok", params |-> p, ode |-> "none",
         metrics |-> << DeltaMetric(p),
                        [label |-> "Periodo (T)", value |-> T_fmt(p)],
                        [label |-> "Frecuencia Angular (ω)", value |-> w_fmt(p)],
                        [label |-> "Energía Mecánica (E)", value |-> EnergiaMetric(p)] >>,
         figures |-> << Figure(<<"Cinemática", desc_extra(p)>>, t, <<S("x"), S("v"), S("a")>>,
                               <<"Posición (m)", "Velocidad (m/s)", "Aceleración (m/s²)">>),
                        Figure(<<"Energía", desc_extra(p)>>, t, <<S("E_p"), S("E_k"), S("E_m")>>,
                               <<"Potencial Elástica", "Cinética", "Mecánica Total">>) >>]

(***************************************************************************)
(* scipy.integrate.odeint (lines 127, 185)                                 *)
(***************************************************************************)
\* odeint(func, y0, t) returns one row per sample of t whether or not the
\* integration met its tolerance: without full_output a failure is only a
\* printed warning.  Its step budget is mxstep = 500 internal steps per
\* output interval, and a linear multistep method needs at least one step
\* per radian of the fastest mode; rateSq is the square of that mode's
\* angular rate.  The status is what the solver would report.
OdeintStatus(rateSq, t) ==
    LET omega == ISqrt(rateSq[1] \div rateSq[2])
        span == RSub(t.hi, t.lo)
    IN  IF omega * span[1] > 500 * span[2] * (t.num - 1)
        THEN "excess_work" ELSE "success"

(***************************************************************************)
(* Péndulo Simple (lines 105-136)                                          *)
(***************************************************************************)
\* g / L
g_over_L(p) == RDiv(Rat(p.g, 100), Rat(p.L, 10))
\* w0 = np.sqrt(g / L): NaN (with a RuntimeWarning) for a negative argument
w0_is_nan(p) == RLess(g_over_L(p), RInt(0))
\* t = np.linspace(0, 10, 500)
t_pendulo == Linspace(RInt(0), RInt(10), 500)

PenduloSimple(p) ==
    LET t == t_pendulo
        theta_linear == Elementwise("theta_linear", t, w0_is_nan(p))
        theta_nonlinear == Elementwise("theta_nonlinear", t, FALSE)
    IN  [module |-> "Péndulo Simple", status |-> "ok", params |-> p,
         ode |-> OdeintStatus(Rat(Abs(g_over_L(p)[1]), g_over_L(p)[2]), t),
         metrics |-> << >>,
         figures |-> << Figure(<<"Ángulo del Péndulo vs Tiempo">>, t,
                               <<theta_linear, theta_nonlinear>>,
                               <<"Modelo Lineal (Simple)", "Modelo No Lineal (Exacto)">>) >>]

(***************************************************************************)
(* Análisis T vs (m, k) (lines 138-164)                                    *)
(***************************************************************************)
\* m_range = np.linspace(0.1, 10, 100)
m_range == Linspace(Rat(1, 10), RInt(10), 100)
\* k_range = np.linspace(1.0, 50, 100)
k_range == Linspace(RInt(1), RInt(50), 100)

\* Mutant: the ratio under the root is inverted (np.sqrt(k_fixed / m_range)).
T_m_at_inverted(p, i) == RDiv(Rat(p.k_fixed, 100), GridAt(m_range, i))

\* T_m = 2 * np.pi * np.sqrt(m_range / k_fixed).  A period 2 pi sqrt(q) is
\* carried by its radicand q; periods compare as their radicands do.
T_m_at(p, i) == RDiv(GridAt(m_range, i), Rat(p.k_fixed, 100))
\* T_k = 2 * np.pi * np.sqrt(m_fixed / k_range)
T_k_at(p, i) == RDiv(Rat(p.m_fixed, 100), GridAt(k_range, i))

AnalisisT(p) ==
    [module |-> "Análisis T vs (m, k)", status |-> "ok", params |-> p, ode |-> "none",
     metrics |-> << >>,
     figures |-> << Figure(<<"Periodo vs Masa (k=", p.k_fixed, ")">>, m_range,
                           <<Elementwise("T_m", m_range, FALSE)>>, <<"">>),
                    Figure(<<"Periodo vs Constante k (m=", p.m_fixed, ")">>, k_range,
                           <<Elementwise("T_k", k_range, FALSE)>>, <<"">>) >>]

(***************************************************************************)
(* MAS Amortiguado (lines 166-198)                                         *)
(***************************************************************************)
\* t = np.linspace(0, 20, 1000)
t_amortiguado == Linspace(RInt(0), RInt(20), 1000)

\* if b > 0 and b**2 < 4*m*k   (b in tenths, m and k in hundredths)
ShowEnvelope(p) == p.b > 0 /\ LessThanProduct(25 * p.b * p.b, p.m, p.k)

\* b/m and k/m in damped_ode, and b / (2*m) in the envelope, divide Python
\* floats: m = 0 raises ZeroDivisionError and the run ends with no figure.
MASAmortiguado(p) ==
    IF p.m = 0
    THEN [module |-> "MAS Amortiguado", status |-> "ZeroDivisionError", params |-> p,
          ode |-> "none", metrics |-> << >>, figures |-> << >>]
    ELSE
    LET t == t_amortiguado
        x_damped == Elementwise("x_damped", t, FALSE)
        envelope == Elementwise("envelope", t, FALSE)
        minus_envelope == Elementwise("-envelope", t, FALSE)
    IN  [module |-> "MAS Amortiguado", status |-> "ok", params |-> p,
         ode |-> OdeintStatus(Rat(Abs(p.k), Abs(p.m)), t),
         metrics |-> << >>,
         figures |-> << IF ShowEnvelope(p)
                        THEN Figure(<<"Movimiento Amortiguado">>, t,
                                    <<x_damped, envelope, minus_envelope>>,
                                    <<"Posición x(t)", "Envolvente (+)", "Envolvente (-)">>)
                        ELSE Figure(<<"Movimiento Amortiguado">>, t,
                                    <<x_damped>>, <<"Posición x(t)">>) >>]

(***************************************************************************)
(* One run of the script (lines 24, 42, 105, 138, 166)                     *)
(***************************************************************************)
Inicio(p) ==
    [module |-> "Inicio", status |-> "ok", params |-> p, ode |-> "none",
     metrics |-> << >>, figures |-> << >>]

\* if opcion == ... elif ... : the branch of the selected module
Branch(o, p) ==
    CASE o = "Masa-Resorte" -> MasaResorte(p)
      [] o = "Péndulo Simple" -> PenduloSimple(p)
      [] o = "Análisis T vs (m, k)" -> AnalisisT(p)
      [] o = "MAS Amortiguado" -> MASAmortiguado(p)
      [] OTHER -> Inicio(p)

(***************************************************************************)
(* State machine                                                           *)
(*   opcion   the module selected in the sidebar                           *)
(*   widgets  the values of the widgets of that module                     *)
(*   out      what the last run of the script emitted                      *)
(*   ref      history variable: the output of one earlier run, remembered  *)
(*            at the moment a later run replaces it; only kept when        *)
(*            `track` is set (SpecTrack)                                   *)
(***************************************************************************)
NoRef == [module |-> "none"]

\* Mutant: while the module stays selected, the run computes from the widget
\* values of the previous run (the new values arrive one run late).
ScriptLagging(o, p) ==
    IF opcion = o THEN [Branch(o, widgets) EXCEPT !.params = p] ELSE Branch(o, p)

\* One run of the script from its first line: nothing of an earlier run is
\* read, every name is assigned anew from the widget values.
Script(o, p) == Branch(o, p)

\* The script runs with module o and widget values p.
Rerun(o, p) ==
    /\ opcion' = o
    /\ widgets' = p
    /\ out' = Script(o, p)
    /\ ref' \in (IF track /\ ref.module = "none" THEN {ref, out} ELSE {ref})
    /\ track' = track

Init ==
    /\ opcion = "Inicio"
    /\ widgets = Defaults("Inicio")
    /\ out = Inicio(Defaults("Inicio"))
    /\ ref = NoRef
    /\ track = FALSE

InitTrack ==
    /\ opcion = "Inicio"
    /\ widgets = Defaults("Inicio")
    /\ out = Inicio(Defaults("Inicio"))
    /\ ref = NoRef
    /\ track = TRUE

\* The sidebar radio: the widgets of the module left are dropped, those of
\* the module entered start at their defaults.
SelectOpcion(o) ==
    /\ o # opcion
    /\ Rerun(o, Defaults(o))

SetTipoSistema(v) ==
    /\ opcion = "Masa-Resorte" /\ v # widgets.tipo_sistema
    /\ Rerun(opcion, [widgets EXCEPT !.tipo_sistema = v])

SetMasa(v) ==
    /\ opcion = "Masa-Resorte" /\ v # widgets.m
    /\ Rerun(opcion, [widgets EXCEPT !.m = v])

SetK(v) ==
    /\ opcion = "Masa-Resorte" /\ v # widgets.k
    /\ Rerun(opcion, [widgets EXCEPT !.k = v])

SetAmplitud(v) ==
    /\ opcion = "Masa-Resorte" /\ v # widgets.A
    /\ Rerun(opcion, [widgets EXCEPT !.A = v])

SetDuration(v) ==
    /\ opcion = "Masa-Resorte" /\ v # widgets.duration
    /\ Rerun(opcion, [widgets EXCEPT !.duration = v])

SetL(v) ==
    /\ opcion = "Péndulo Simple" /\ v # widgets.L
    /\ Rerun(opcion, [widgets EXCEPT !.L = v])

SetG(v) ==
    /\ opcion = "Péndulo Simple" /\ v # widgets.g
    /\ Rerun(opcion, [widgets EXCEPT !.g = v])

SetTheta0(v) ==
    /\ opcion = "Péndulo Simple" /\ v # widgets.theta0_deg
    /\ Rerun(opcion, [widgets EXCEPT !.theta0_deg = v])

SetKFixed(v) ==
    /\ opcion = "Análisis T vs (m, k)" /\ v # widgets.k_fixed
    /\ Rerun(opcion, [widgets EXCEPT !.k_fixed = v])

SetMFixed(v) ==
    /\ opcion = "Análisis T vs (m, k)" /\ v # widgets.m_fixed
    /\ Rerun(opcion, [widgets EXCEPT !.m_fixed = v])

SetDampedM(v) ==
    /\ opcion = "MAS Amortiguado" /\ v # widgets.m
    /\ Rerun(opcion, [widgets EXCEPT !.m = v])

SetDampedK(v) ==
    /\ opcion = "MAS Amortiguado" /\ v # widgets.k
    /\ Rerun(opcion, [widgets EXCEPT !.k = v])

SetB(v) ==
    /\ opcion = "MAS Amortiguado" /\ v # widgets.b
    /\ Rerun(opcion, [widgets EXCEPT !.b = v])

Next ==
    \/ \E o \in Opciones : SelectOpcion(o)
    \/ \E v \in TipoSistema : SetTipoSistema(v)
    \/ \E v \in MasaSlider : SetMasa(v)
    \/ \E v \in KSlider : SetK(v)
    \/ \E v \in AmplitudSlider : SetAmplitud(v)
    \/ \E v \in DurationSlider : SetDuration(v)
    \/ \E v \in LSlider : SetL(v)
    \/ \E v \in GTyped : SetG(v)
    \/ \E v \in ThetaSlider : SetTheta0(v)
    \/ \E v \in KFixedSlider : SetKFixed(v)
    \/ \E v \in MFixedSlider : SetMFixed(v)
    \/ \E v \in MTyped : SetDampedM(v)
    \/ \E v \in KTyped : SetDampedK(v)
    \/ \E v \in BSlider : SetB(v)

Spec == Init /\ [][Next]_vars

SpecTrack == InitTrack /\ [][Next]_vars

(***************************************************************************)
(* Reading the output                                                      *)
(***************************************************************************)
Models == {"Masa-Resorte", "Péndulo Simple", "Análisis T vs (m, k)", "MAS Amortiguado"}

\* Every plotted series of an output o, with the grid it is plotted against.
Lines(o) ==
    UNION {{[x |-> o.figures[f].x, name |-> o.figures[f].lines[j].name,
             y |-> o.figures[f].lines[j].y] : j \in DOMAIN o.figures[f].lines} :
           f \in DOMAIN o.figures}

Plotted(o, kind) == \E l \in Lines(o) : l.y.kind = kind

\* Sample i (from 0) of a closed-form series of the run with widget values p.
\* For "v" the value is the coefficient of w; for "T_m" and "T_k" the radicand.
Val(y, p, i) ==
    CASE y.kind = "x" -> x_at(p, i)
      [] y.kind = "v" -> v_over_w_at(p, i)
      [] y.kind = "a" -> a_at(p, i)
      [] y.kind = "E_p" -> E_p_at(p, i)
      [] y.kind = "E_k" -> E_k_at(p, i)
      [] y.kind = "E_m" -> E_m_at(p, i)
      [] y.kind = "T_m" -> T_m_at(p, i)
      [] y.kind = "T_k" -> T_k_at(p, i)

Damped == out.module = "MAS Amortiguado"
Pendulo == out.module = "Péndulo Simple"
MasaRes == out.module = "Masa-Resorte"
Sweep == out.module = "Análisis T vs (m, k)"

(***************************************************************************)
(* C1                                                                      *)
(***************************************************************************)
\* b > 0 and b*b < 4*m*k, in exact decimal arithmetic
Underdamped(p) == p.b > 0 /\ LessThanProduct(25 * p.b * p.b, p.m, p.k)

EnvelopesPlotted == Plotted(out, "envelope") /\ Plotted(out, "-envelope")

\* C1: in every request of the damped module the two envelope series are
\* output if and only if b > 0 and b*b < 4*m*k, and the displacement series
\* x(t) is output in every case.
C1_EnvelopeIffUnderdampedAndXAlways ==
    Damped =>
        /\ (Plotted(out, "envelope") <=> Underdamped(out.params))
        /\ (Plotted(out, "-envelope") <=> Underdamped(out.params))
        /\ Plotted(out, "x_damped")

\* The part of C1 about the envelope alone: it holds of every request.
EnvelopeIffUnderdamped ==
    Damped =>
        /\ (Plotted(out, "envelope") <=> Underdamped(out.params))
        /\ (Plotted(out, "-envelope") <=> Underdamped(out.params))

\* Requests at exactly critical damping, where the envelope is absent.
CriticalReached ==
    /\ Damped /\ out.status = "ok" /\ out.params.b > 0
    /\ out.params.m > 0 /\ out.params.k > 0 /\ out.params.k < 100000
    /\ 25 * out.params.b * out.params.b = out.params.m * out.params.k
    /\ ~EnvelopesPlotted

(***************************************************************************)
(* C2, C3                                                                  *)
(***************************************************************************)
\* The physical parameters a model received satisfy the constraints of the
\* data model: mass, stiffness, length, gravity > 0, amplitude, damping >= 0.
ParamsValid(o) ==
    CASE o.module = "Masa-Resorte" ->
           o.params.m > 0 /\ o.params.k > 0 /\ o.params.A >= 0
      [] o.module = "Péndulo Simple" -> o.params.L > 0 /\ o.params.g > 0
      [] o.module = "Análisis T vs (m, k)" ->
           o.params.k_fixed > 0 /\ o.params.m_fixed > 0
      [] o.module = "MAS Amortiguado" ->
           o.params.m > 0 /\ o.params.k > 0 /\ o.params.b >= 0
      [] OTHER -> TRUE

\* C2: a request whose mass, stiffness, length or gravity is not positive
\* ends in an invalid-parameter error and outputs no series.
C2_NonPositiveFailsFast ==
    (out.module \in Models /\ ~ParamsValid(out)) =>
        (out.status = "InvalidParameter" /\ Lines(out) = {})

\* C3: every request that reaches a model carries valid parameters.
C3_ParamsAlwaysValid == out.module \in Models => ParamsValid(out)

(***************************************************************************)
(* C4                                                                      *)
(***************************************************************************)
\* C4: a trajectory computed by the ODE solver is plotted only when the
\* solver reported success; a failed integration ends in an
\* integration-failure error.
C4_PlottedOnlyOnSolverSuccess ==
    /\ (Plotted(out, "theta_nonlinear") \/ Plotted(out, "x_damped")) => out.ode = "success"
    /\ out.ode = "excess_work" => out.status = "IntegrationFailure"

(***************************************************************************)
(* C5                                                                      *)
(***************************************************************************)
\* m*g/k with g = 9.81, for the slider values m (tenths) and k
OffsetExact(p) == Rat(981 * p.m, 1000 * p.k)

OffsetShown == out.metrics[1].value

\* C5 as stated: the reported offset is m*g/k when Vertical, 0 when Horizontal.
C5_OffsetIsExactly_mg_over_k ==
    MasaRes =>
        IF out.params.tipo_sistema = "Vertical"
        THEN Rat(OffsetShown, 1000) = OffsetExact(out.params)
        ELSE OffsetShown = 0

\* C5 amended: the reported offset is m*g/k rounded to three decimals (within
\* 0.0005 m of it) when Vertical, and 0.000 when Horizontal; it is 0.981 for
\* m = 1, k = 10.
C5_OffsetRoundedTo3Decimals ==
    MasaRes =>
        /\ out.params.tipo_sistema = "Vertical" =>
             /\ 2 * Abs(OffsetShown * out.params.k - 981 * out.params.m) <= out.params.k
             /\ (out.params.m = 10 /\ out.params.k = 10) => OffsetShown = 981
        /\ out.params.tipo_sistema = "Horizontal" => OffsetShown = 0

C5_Witness ==
    /\ MasaRes /\ out.params.tipo_sistema = "Vertical"
    /\ out.params.m = 10 /\ out.params.k = 10 /\ OffsetShown = 981

(***************************************************************************)
(* C6   (checked under SpecTrack, where ref remembers an earlier output)   *)
(***************************************************************************)
SameRequest(o1, o2) == o1.module = o2.module /\ o1.params = o2.params

SweepLine(f) == out.figures[f].lines[1].y

\* C7: T_m is strictly increasing along m_range and T_k strictly decreasing
\* along k_range, for every k_fixed and m_fixed.
C7_SweepsStrictlyMonotonic ==
    Sweep =>
        /\ SweepLine(1).kind = "T_m" /\ SweepLine(2).kind = "T_k"
        /\ \A i \in 0..(SweepLine(1).n - 2) :
               RLess(Val(SweepLine(1), out.params, i), Val(SweepLine(1), out.params, i + 1))
        /\ \A i \in 0..(SweepLine(2).n - 2) :
               RLess(Val(SweepLine(2), out.params, i + 1), Val(SweepLine(2), out.params, i))

C7_Witness ==
    /\ Sweep /\ out.params.k_fixed = 5000 /\ out.params.m_fixed = 10
    /\ SweepLine(1).n = 100 /\ SweepLine(2).n = 100

(***************************************************************************)
(* C8                                                                      *)
(***************************************************************************)
EnergyLine == CHOOSE l \in Lines(out) : l.y.kind = "E_m"
EnergyShown == out.metrics[4].value
\* 0.5 * k * A^2 for the slider values k and A (tenths)
HalfKA2(p) == Rat(p.k * p.A * p.A, 200)

\* C8 as stated: E_m has the same value at every sample, and that value is
\* the reported mechanical energy.
C8_EnergyConstantAndEqualsReported ==
    MasaRes =>
        \A i \in 0..(EnergyLine.y.n - 1) :
            /\ Val(EnergyLine.y, out.params, i) = Val(EnergyLine.y, out.params, 0)
            /\ Val(EnergyLine.y, out.params, i) = Rat(EnergyShown, 100)

\* C8 amended: in exact arithmetic E_m = E_p + E_k equals 0.5*k*A^2 at every
\* sample, and the reported mechanical energy is 0.5*k*A^2 rounded to two
\* decimals (within 0.005 J of it).
C8_EnergyConstantReportedRounded ==
    MasaRes =>
        /\ \A i \in 0..(EnergyLine.y.n - 1) :
               Val(EnergyLine.y, out.params, i) = HalfKA2(out.params)
        /\ Abs(2 * EnergyShown - out.params.k * out.params.A * out.params.A) <= 1

\* A run whose energy has a third decimal, with a sample where both the
\* potential and the kinetic energy are non-zero.
C8_Witness ==
    /\ MasaRes /\ out.params.k = 1 /\ out.params.A = 1
    /\ \E i \in 0..(EnergyLine.y.n - 1) :
           /\ E_p_at(out.params, i) # RInt(0)
           /\ E_k_at(out.params, i) # RInt(0)

(***************************************************************************)
(* C9                                                                      *)
(***************************************************************************)
GridOk(g) ==
    /\ g.num >= 2 /\ g.num <= 1000
    /\ GridAt(g, 0) = g.lo
    /\ \A i \in 0..(g.num - 2) : RLess(GridAt(g, i), GridAt(g, i + 1))

\* C9: every series output has one value per sample of the grid it is
\* plotted against, and every grid has between 2 and 1000 strictly
\* increasing samples starting at its lower bound.
C9_SeriesMatchGrids ==
    \A l \in Lines(out) : l.y.n = l.x.num /\ GridOk(l.x)

C9_Witness ==
    /\ MasaRes /\ out.params.duration = 30 /\ Cardinality(Lines(out)) = 6
    /\ \A l \in Lines(out) : l.y.n = 500

(***************************************************************************)
(* C10                                                                     *)
(***************************************************************************)
\* The step changes the orientation of the mass-spring module and nothing else.
OrientationToggled ==
    /\ opcion = "Masa-Resorte" /\ opcion' = "Masa-Resorte"
    /\ widgets'.tipo_sistema # widgets.tipo_sistema
    /\ widgets' = [widgets EXCEPT !.tipo_sistema = widgets'.tipo_sistema]

\* C10: changing the orientation leaves the six series and the period,
\* angular frequency and mechanical energy metrics as they were; only the
\* equilibrium offset and the title suffix follow the orientation.
C10_OrientationFrame ==
    [][OrientationToggled =>
        /\ \A f \in DOMAIN out.figures :
              /\ out'.figures[f].x = out.figures[f].x
              /\ out'.figures[f].title[1] = out.figures[f].title[1]
              /\ \A j \in DOMAIN out.figures[f].lines :
                    /\ out'.figures[f].lines[j] = out.figures[f].lines[j]
                    /\ \A i \in 0..(out.figures[f].lines[j].y.n - 1) :
                          Val(out'.figures[f].lines[j].y, out'.params, i)
                            = Val(out.figures[f].lines[j].y, out.params, i)
        /\ DOMAIN out'.figures = DOMAIN out.figures
        /\ \A j \in 2..4 : out'.metrics[j] = out.metrics[j]]_vars

\* The orientation is Vertical with a non-zero offset shown, a non-default amplitude.
C10_Witness ==
    /\ MasaRes /\ out.params.tipo_sistema = "Vertical" /\ OffsetShown > 0
    /\ out.params.A = 50 /\ out.figures[1].title[2] = " (Vertical - Afectado por gravedad)"

====
